---- MODULE Spec2Model ----
(***************************************************************************)
(* Model of src/server.js: an Express application with four routes         *)
(* (POST /api/get-salt, POST /api/register, POST /api/login,               *)
(* GET /api/profile) over a MySQL table `users` reached through a          *)
(* connection pool, issuing JSON web tokens on login.                      *)
(*                                                                         *)
(* Every handler is an async function: it runs atomically up to its next    *)
(* `await`, so each action below is one such run: the arrival of the       *)
(* request up to `await pool.getConnection()`, the resolution of that      *)
(* promise up to the first `await connection.query(...)`, and the          *)
(* resolution of each query up to the next await or the response.          *)
(* Several requests are in flight at once (Slots), interleaved at the      *)
(* awaits.                                                                 *)
(*                                                                         *)
(* Strings are sequences of atoms, so that `+` is \o and the empty string  *)
(* is << >>.  SHA-256 is modelled as a collision-free digest: the digest   *)
(* of s is s between two marks that no client string contains.             *)
(***************************************************************************)
EXTENDS Integers, Sequences, FiniteSets, TLC

(***************************************************************************)
(* Bounds of the model.                                                    *)
(***************************************************************************)
\* Hours that pass in one step of the clock.
TickHours == 12

\* The requests that can be in flight at the same time: two callers.
Slots == {1, 2}

(***************************************************************************)
(* JavaScript values.                                                      *)
(***************************************************************************)
\* A field that is absent from the JSON body (or a header that is absent).
Undefined == <<"undefined">>
\* SQL NULL: what mysql2 binds for undefined and for null.
SqlNull == <<"NULL">>

\* A test that only catches an absent field, as `x === undefined` would.
FalsyUndefinedOnly(x) == x = Undefined

\* `!x` of JavaScript for the two kinds of value a body field takes here.
Falsy(x) == x = Undefined \/ x = << >>

\* `x || null`, then bound as a query parameter.
OrNull(x) == IF Falsy(x) THEN SqlNull ELSE x

\* A bound parameter: undefined is sent as NULL.
Bind(x) == IF x = Undefined THEN SqlNull ELSE x

(***************************************************************************)
(* crypto.createHash("sha256").update(s).digest("hex")                     *)
(***************************************************************************)
Sha256Hex(s) == <<"sha256(">> \o s \o <<")">>

\* .substring(0, 16) of a hex digest: its 16-character prefix, taken to be
\* as collision-free as the digest on the strings of the model.
Substring016(d) == <<"prefix16(">> \o d \o <<")">>

Pepper == <<"server-pepper-secret">>

\* The salt of get-salt, were it derived without the pepper.
GetSaltUnpeppered(username) == Substring016(Sha256Hex(username))

\* Salt generated by get-salt for a username that has no record.
GetSaltNewUserSalt(username) == Substring016(Sha256Hex(username \o Pepper))

\* Salt generated by register for the new record.
RegisterSalt(username) == Substring016(Sha256Hex(username \o Pepper))

\* The expected hash, were the nonce left out of it.
ExpectedHashWithoutNonce(passwordHash, nonce) == Sha256Hex(passwordHash)

\* Expected hash computed by login from the stored hash and the nonce.
ExpectedHash(passwordHash, nonce) == Sha256Hex(passwordHash \o nonce)

(***************************************************************************)
(* jsonwebtoken                                                            *)
(***************************************************************************)
JWT_SECRET == "your-secret-key-change-this"

\* expiresIn: "24h", in hours.
ExpiresIn == 24

NoClaims == [userId |-> 0, username |-> Undefined, iat |-> 0, exp |-> 0]

\* What the split of an Authorization header can yield at index 1.
NoToken == [kind |-> "undefined", claims |-> NoClaims, key |-> ""]
EmptyToken == [kind |-> "empty", claims |-> NoClaims, key |-> ""]
MalformedToken == [kind |-> "malformed", claims |-> NoClaims, key |-> ""]
BearerWord == [kind |-> "Bearer", claims |-> NoClaims, key |-> ""]

\* The signing, were the payload built without the record's id.
JwtSignWithoutUserId(userId, username, secret, now) ==
    [kind |-> "jwt",
     claims |-> [userId |-> 0, username |-> username,
                 iat |-> now, exp |-> now + ExpiresIn],
     key |-> secret]

\* jwt.sign({userId, username}, secret, {expiresIn: "24h"}) at time now.
JwtSign(userId, username, secret, now) ==
    [kind |-> "jwt",
     claims |-> [userId |-> userId, username |-> username,
                 iat |-> now, exp |-> now + ExpiresIn],
     key |-> secret]

\* Expiry, were the token still good at exp itself.
JwtExpiredAfterExp(token, now) == now > token.claims.exp

\* The token is expired once the clock has reached exp.
JwtExpired(token, now) == now >= token.claims.exp

\* jwt.verify(token, secret, callback) at time now: err, or the decoded claims.
JwtVerify(token, secret, now) ==
    IF token.kind # "jwt" \/ token.key # secret \/ JwtExpired(token, now)
    THEN [err |-> TRUE, user |-> NoClaims]
    ELSE [err |-> FALSE, user |-> token.claims]

\* `!token`: undefined or the empty string.
FalsyToken(token) == token.kind \in {"undefined", "empty"}

\* authHeader && authHeader.split(" ")[1]; a header is the sequence of its
\* space-separated parts, << >> when the header is absent.
HeaderToken(authHeader) ==
    IF Len(authHeader) >= 2 THEN authHeader[2] ELSE NoToken

(***************************************************************************)
(* The `users` table.  The server never creates the table: it is made and  *)
(* kept outside the process, which starts over whatever rows it holds.     *)
(* Rows are those the register handler's INSERT parameters describe:       *)
(* (username, email || null, clientHash, salt of the username, TRUE).      *)
(***************************************************************************)
Alice == <<"alice">>
Bob == <<"bob">>
Carol == <<"carol">>
AliceMail == <<"alice@example.com">>
Password == <<"pw">>

\* What a client following the protocol registers: SHA-256(password + salt).
ClientPasswordHash(username) ==
    Sha256Hex(Password \o Substring016(Sha256Hex(username \o Pepper)))

\* What a client following the protocol sends to login:
\* SHA-256(SHA-256(password + salt) + nonce).
ClientLoginHash(username, nonce) == Sha256Hex(ClientPasswordHash(username) \o nonce)

\* last_login is NULL (<< >>) or <<t>>.  Alice's record has an email, Carol's
\* has none (email is NULL).
InitialUsers ==
    { [id |-> 1, username |-> Alice, email |-> AliceMail,
       passwordHash |-> ClientPasswordHash(Alice), salt |-> RegisterSalt(Alice),
       is_active |-> TRUE, last_login |-> << >>],
      [id |-> 2, username |-> Carol, email |-> SqlNull,
       passwordHash |-> ClientPasswordHash(Carol), salt |-> RegisterSalt(Carol),
       is_active |-> TRUE, last_login |-> << >>] }

\* "SELECT salt FROM users WHERE username = ?"
SelectSalt(rows, username) ==
    { [id |-> r.id, salt |-> r.salt] : r \in {x \in rows : x.username = Bind(username)} }

\* The SELECT, were NULL equal to NULL.
SelectExistingNullEqual(rows, username, email) ==
    { [id |-> r.id] :
        r \in {x \in rows : \/ x.username = Bind(username)
                            \/ x.email = Bind(email)} }

\* "SELECT id FROM users WHERE username = ? OR email = ?"; a comparison with
\* NULL is never true.
SelectExisting(rows, username, email) ==
    { [id |-> r.id] :
        r \in {x \in rows : \/ x.username = Bind(username)
                            \/ /\ Bind(email) # SqlNull
                               /\ x.email # SqlNull
                               /\ x.email = Bind(email)} }

\* "SELECT id, username, passwordHash FROM users WHERE username = ?"
SelectUser(rows, username) ==
    { [id |-> r.id, username |-> r.username, passwordHash |-> r.passwordHash] :
        r \in {x \in rows : x.username = Bind(username)} }

\* rows[0]: the statements have no ORDER BY; the row of least id is taken.
FirstRow(rs) == CHOOSE r \in rs : \A o \in rs : r.id <= o.id

\* AUTO_INCREMENT of the next insert.
NextInsertId(rows) ==
    IF rows = {} THEN 1
    ELSE (CHOOSE r \in rows : \A o \in rows : r.id >= o.id).id + 1

\* The statement register would run were its column list well formed.
InsertUserWellFormed(rows, username, email, passwordHash, salt) ==
    [ok |-> TRUE,
     insertId |-> NextInsertId(rows),
     rows |-> rows \cup { [id |-> NextInsertId(rows), username |-> username,
                           email |-> email, passwordHash |-> passwordHash,
                           salt |-> salt, is_active |-> TRUE,
                           last_login |-> << >>] }]

\* "INSERT INTO users (username, 'abc@xyz.com', passwordHash, salt, is_active)
\*  VALUES (?, ?, ?, ?, TRUE)": the second entry of the column list is a string
\* literal, not a column name, so MySQL rejects the statement (error 1064) for
\* every parameter list; the query throws and the table is unchanged.
InsertUser(rows, username, email, passwordHash, salt) ==
    [ok |-> FALSE, insertId |-> 0, rows |-> rows]

\* "UPDATE users SET last_login = CURRENT_TIMESTAMP WHERE id = ?"
UpdateLastLogin(rows, id, now) ==
    { IF r.id = id THEN [r EXCEPT !.last_login = <<now>>] ELSE r : r \in rows }

\* dbConfig.connectionLimit
connectionLimit == 10

(***************************************************************************)
(* State.                                                                  *)
(***************************************************************************)
VARIABLES
    users,   \* the rows of the table `users`
    pool,    \* connections of the pool that are checked out
    clock,   \* the time, in hours
    pc,      \* per slot: where its handler is suspended
    req,     \* per slot: the request being (or last) handled
    local,   \* per slot: the handler's result of its SELECT
    resp,    \* per slot: the response sent, once pc is "done"
    hist,    \* per slot: what is recorded about the request for the properties
    served   \* register and login requests counted since the clock last moved

vars == <<users, pool, clock, pc, req, local, resp, hist, served>>

NoReq ==
    [kind |-> "none", username |-> Undefined, email |-> Undefined,
     clientHash |-> Undefined, nonce |-> Undefined, authHeader |-> << >>]

NoUser == [id |-> 0, username |-> Undefined]

NoResp ==
    [status |-> 0, success |-> FALSE, message |-> "", salt |-> Undefined,
     isNewUser |-> FALSE, userId |-> 0, token |-> NoToken, user |-> NoUser]

NoLocal == [selected |-> FALSE, rows |-> {}]

\* fault: a storage failure was injected into the request; raced: another
\* register of the same username was in flight with it; replay: a login with
\* the same username, clientHash and nonce was accepted before it arrived.
NoHist == [fault |-> FALSE, raced |-> FALSE, replay |-> FALSE]

\* res.status(status).json({success, message})
Json(status, success, message) ==
    [NoResp EXCEPT !.status = status, !.success = success, !.message = message]

Init ==
    /\ users = InitialUsers
    /\ pool = 0
    /\ clock = 0
    /\ pc = [p \in Slots |-> "idle"]
    /\ req = [p \in Slots |-> NoReq]
    /\ local = [p \in Slots |-> NoLocal]
    /\ resp = [p \in Slots |-> NoResp]
    /\ hist = [p \in Slots |-> NoHist]
    /\ served = 0

(***************************************************************************)
(* What clients send.                                                      *)
(***************************************************************************)
Usernames == {Alice, Bob}
Nonces == {<<"n1">>, <<"n2">>}

\* Bodies of get-salt: a username, or none, or an empty one.
GetSaltInputs == Usernames \cup {Undefined, << >>}

\* Bodies of register: a client sends the hash of its password and salt, with
\* or without an email; or a body that lacks the username or the hash.
RegisterInputs ==
    {[username |-> u, email |-> e, clientHash |-> ClientPasswordHash(u)] :
        u \in Usernames, e \in {Undefined, AliceMail}}
    \cup {[username |-> Undefined, email |-> Undefined,
           clientHash |-> ClientPasswordHash(Bob)],
          [username |-> Alice, email |-> AliceMail, clientHash |-> << >>],
          [username |-> Bob, email |-> Undefined, clientHash |-> Undefined]}

\* Bodies of login: a username, a nonce and the response to one of the nonces
\* for Alice's password (the right one, or one captured under the other
\* nonce); or a body that lacks one of the three.
LoginInputs ==
    {[username |-> Alice, clientHash |-> ClientLoginHash(Alice, m),
      nonce |-> n] : m \in Nonces, n \in Nonces}
    \cup {[username |-> Bob,
           clientHash |-> ClientLoginHash(Alice, <<"n1">>),
           nonce |-> <<"n1">>],
          [username |-> << >>,
           clientHash |-> ClientLoginHash(Alice, <<"n1">>),
           nonce |-> <<"n1">>],
          [username |-> Alice, clientHash |-> Undefined, nonce |-> <<"n1">>],
          [username |-> Alice,
           clientHash |-> ClientLoginHash(Alice, <<"n1">>),
           nonce |-> Undefined]}

\* A token signed with a key that is not the server's.
ForgedToken(now) == JwtSign(1, Alice, "attacker-key", now)

\* Authorization headers: none, a scheme alone, a scheme and an empty,
\* malformed or forged token, or a token some login response carries.
AuthHeaderInputs ==
    {<< >>, <<BearerWord>>, <<BearerWord, EmptyToken>>,
     <<BearerWord, MalformedToken>>, <<BearerWord, ForgedToken(0)>>}
    \cup {<<BearerWord, resp[q].token>> : q \in {s \in Slots : resp[s].token.kind = "jwt"}}

(***************************************************************************)
(* Steps shared by the handlers' shape.                                    *)
(***************************************************************************)
InFlight(p) == pc[p] \in {"getConnection", "select", "insert", "update"}
Free(p) == pc[p] \in {"idle", "done"}
Done(p) == pc[p] = "done"

\* The request r arrives at slot p; the handler answers at once with a, or
\* suspends at `await pool.getConnection()`.
Arrive(p, r, h, invalid, a) ==
    /\ req' = [req EXCEPT ![p] = r]
    /\ local' = [local EXCEPT ![p] = NoLocal]
    /\ hist' = h
    /\ pc' = [pc EXCEPT ![p] = IF invalid THEN "done" ELSE "getConnection"]
    /\ resp' = [resp EXCEPT ![p] = IF invalid THEN a ELSE NoResp]
    /\ UNCHANGED <<users, pool, clock>>

\* The answer, were the connection never given back.
AnswerWithoutRelease(p, a, release) ==
    /\ pc' = [pc EXCEPT ![p] = "done"]
    /\ resp' = [resp EXCEPT ![p] = a]
    /\ pool' = pool

\* The handler of slot p answers a; release tells whether it held a connection
\* (the finally block releases it).
Answer(p, a, release) ==
    /\ pc' = [pc EXCEPT ![p] = "done"]
    /\ resp' = [resp EXCEPT ![p] = a]
    /\ pool' = IF release THEN pool - 1 ELSE pool

\* pool.getConnection() resolves, or rejects and the catch block answers a.
Connect(p, fault, a) ==
    /\ fault \/ pool < connectionLimit
    /\ IF fault
       THEN /\ Answer(p, a, FALSE)
            /\ hist' = [hist EXCEPT ![p].fault = TRUE]
       ELSE /\ pc' = [pc EXCEPT ![p] = "select"]
            /\ pool' = pool + 1
            /\ UNCHANGED <<resp, hist>>
    /\ UNCHANGED <<users, clock, req, local>>

(***************************************************************************)
(* POST /api/get-salt                                                      *)
(***************************************************************************)
GetSaltServerError == Json(500, FALSE, "Server error")

\* res.json({success: true, salt, isNewUser}) for the rows of the SELECT.
GetSaltResponse(rows, username) ==
    IF rows = {}
    THEN [Json(200, TRUE, "") EXCEPT !.salt = GetSaltNewUserSalt(username),
                                     !.isNewUser = TRUE]
    ELSE [Json(200, TRUE, "") EXCEPT !.salt = FirstRow(rows).salt,
                                     !.isNewUser = FALSE]

GetSaltRequest(p) ==
    /\ Free(p)
    /\ \E username \in GetSaltInputs :
          Arrive(p, [NoReq EXCEPT !.kind = "get-salt", !.username = username],
                 [hist EXCEPT ![p] = NoHist],
                 Falsy(username), Json(400, FALSE, "Username required"))

GetSaltConnected(p) ==
    /\ pc[p] = "getConnection"
    /\ req[p].kind = "get-salt"
    /\ \E fault \in BOOLEAN : Connect(p, fault, GetSaltServerError)

GetSaltSelected(p) ==
    /\ pc[p] = "select"
    /\ req[p].kind = "get-salt"
    /\ \E fault \in BOOLEAN :
          LET rows == SelectSalt(users, req[p].username) IN
          IF fault
          THEN /\ Answer(p, GetSaltServerError, TRUE)
               /\ hist' = [hist EXCEPT ![p].fault = TRUE]
               /\ UNCHANGED local
          ELSE /\ Answer(p, GetSaltResponse(rows, req[p].username), TRUE)
               /\ local' = [local EXCEPT ![p] = [selected |-> TRUE, rows |-> rows]]
               /\ UNCHANGED hist
    /\ UNCHANGED <<users, clock, req>>

(***************************************************************************)
(* POST /api/register                                                      *)
(***************************************************************************)
RegisterServerError == Json(500, FALSE, "Server error")

RegisterConflict == Json(409, FALSE, "Username or email already exists")

RegisterCreated(insertId) ==
    [Json(201, TRUE, "User registered successfully") EXCEPT !.userId = insertId]

\* The registers of username that are in flight in the other slots.
RegistersInFlight(p, username) ==
    {q \in Slots \ {p} : /\ InFlight(q)
                         /\ req[q].kind = "register"
                         /\ req[q].username = username}

RegisterRequest(p) ==
    /\ Free(p)
    /\ \E body \in RegisterInputs :
          LET username == body.username
              email == body.email
              clientHash == body.clientHash
              invalid == Falsy(username) \/ Falsy(clientHash)
              racing == IF invalid THEN {} ELSE RegistersInFlight(p, username)
          IN
          Arrive(p, [NoReq EXCEPT !.kind = "register", !.username = username,
                                  !.email = email, !.clientHash = clientHash],
                 [q \in Slots |->
                    IF q = p
                    THEN [NoHist EXCEPT !.raced = racing # {}]
                    ELSE IF q \in racing
                    THEN [hist[q] EXCEPT !.raced = TRUE]
                    ELSE hist[q]],
                 invalid,
                 Json(400, FALSE, "Username and password hash are required"))

RegisterConnected(p) ==
    /\ pc[p] = "getConnection"
    /\ req[p].kind = "register"
    /\ \E fault \in BOOLEAN : Connect(p, fault, RegisterServerError)

RegisterSelected(p) ==
    /\ pc[p] = "select"
    /\ req[p].kind = "register"
    /\ \E fault \in BOOLEAN :
          LET existingUsers == SelectExisting(users, req[p].username, req[p].email) IN
          IF fault
          THEN /\ Answer(p, RegisterServerError, TRUE)
               /\ hist' = [hist EXCEPT ![p].fault = TRUE]
               /\ UNCHANGED local
          ELSE /\ local' = [local EXCEPT ![p] =
                               [selected |-> TRUE, rows |-> existingUsers]]
               /\ UNCHANGED hist
               /\ IF existingUsers # {}
                  THEN Answer(p, RegisterConflict, TRUE)
                  ELSE /\ pc' = [pc EXCEPT ![p] = "insert"]
                       /\ UNCHANGED <<resp, pool>>
    /\ UNCHANGED <<users, clock, req>>

RegisterInserted(p) ==
    /\ pc[p] = "insert"
    /\ req[p].kind = "register"
    /\ \E fault \in BOOLEAN :
          LET result == InsertUser(users, req[p].username, OrNull(req[p].email),
                                   req[p].clientHash, RegisterSalt(req[p].username))
          IN
          IF fault \/ ~result.ok
          THEN /\ Answer(p, RegisterServerError, TRUE)
               /\ hist' = [hist EXCEPT ![p].fault = fault]
               /\ UNCHANGED users
          ELSE /\ users' = result.rows
               /\ Answer(p, RegisterCreated(result.insertId), TRUE)
               /\ UNCHANGED hist
    /\ UNCHANGED <<clock, req, local>>

(***************************************************************************)
(* POST /api/login                                                         *)
(***************************************************************************)
\* The catch block's answer, were it to pass the error's text on.
LoginServerErrorDetailed == Json(500, FALSE, "ER_CON_COUNT_ERROR: Too many connections")

LoginServerError == Json(500, FALSE, "Server error")

\* An answer to an unknown username that says so.
LoginUserNotFoundRevealed == Json(404, FALSE, "User not found")

\* The answer when the SELECT returns no row.
LoginUserNotFound == Json(401, FALSE, "Invalid credentials")

\* The answer when clientHash is not the expected hash.
LoginHashMismatch == Json(401, FALSE, "Invalid credentials")

\* The answer, were the selected row sent as the user.
LoginSuccessfulWholeRow(user, token) ==
    [Json(200, TRUE, "Login successful") EXCEPT !.token = token, !.user = user]

\* res.json({success, message, token, user: {id, username}})
LoginSuccessful(user, token) ==
    [Json(200, TRUE, "Login successful") EXCEPT
        !.token = token,
        !.user = [id |-> user.id, username |-> user.username]]

\* The comparison, were every clientHash taken for the expected one.
HashMismatchNever(clientHash, user, nonce) == FALSE

\* clientHash !== expectedHash
HashMismatch(clientHash, user, nonce) ==
    clientHash # ExpectedHash(user.passwordHash, nonce)

\* A login with the same username, clientHash and nonce has been accepted.
AcceptedBefore(username, clientHash, nonce) ==
    \E q \in Slots : /\ Done(q)
                     /\ req[q].kind = "login"
                     /\ resp[q].status = 200
                     /\ req[q].username = username
                     /\ req[q].clientHash = clientHash
                     /\ req[q].nonce = nonce

LoginRequest(p) ==
    /\ Free(p)
    /\ \E body \in LoginInputs :
          LET username == body.username
              clientHash == body.clientHash
              nonce == body.nonce
          IN
          Arrive(p, [NoReq EXCEPT !.kind = "login", !.username = username,
                                  !.clientHash = clientHash, !.nonce = nonce],
                 [hist EXCEPT ![p] =
                    [NoHist EXCEPT !.replay =
                        AcceptedBefore(username, clientHash, nonce)]],
                 Falsy(username) \/ Falsy(clientHash) \/ Falsy(nonce),
                 Json(400, FALSE, "Invalid login request"))

LoginConnected(p) ==
    /\ pc[p] = "getConnection"
    /\ req[p].kind = "login"
    /\ \E fault \in BOOLEAN : Connect(p, fault, LoginServerError)

LoginSelected(p) ==
    /\ pc[p] = "select"
    /\ req[p].kind = "login"
    /\ \E fault \in BOOLEAN :
          LET found == SelectUser(users, req[p].username) IN
          IF fault
          THEN /\ Answer(p, LoginServerError, TRUE)
               /\ hist' = [hist EXCEPT ![p].fault = TRUE]
               /\ UNCHANGED local
          ELSE /\ local' = [local EXCEPT ![p] = [selected |-> TRUE, rows |-> found]]
               /\ UNCHANGED hist
               /\ IF found = {}
                  THEN Answer(p, LoginUserNotFound, TRUE)
                  ELSE IF HashMismatch(req[p].clientHash, FirstRow(found), req[p].nonce)
                  THEN Answer(p, LoginHashMismatch, TRUE)
                  ELSE /\ pc' = [pc EXCEPT ![p] = "update"]
                       /\ UNCHANGED <<resp, pool>>
    /\ UNCHANGED <<users, clock, req>>

\* The UPDATE of last_login resolves, or throws into the catch block.
LoginUpdated(p) ==
    /\ pc[p] = "update"
    /\ req[p].kind = "login"
    /\ \E fault \in BOOLEAN :
          LET user == FirstRow(local[p].rows) IN
          IF fault
          THEN /\ Answer(p, LoginServerError, TRUE)
               /\ hist' = [hist EXCEPT ![p].fault = TRUE]
               /\ UNCHANGED users
          ELSE /\ users' = UpdateLastLogin(users, user.id, clock)
               /\ Answer(p, LoginSuccessful(user,
                              JwtSign(user.id, user.username, JWT_SECRET, clock)),
                         TRUE)
               /\ UNCHANGED hist
    /\ UNCHANGED <<clock, req, local>>

(***************************************************************************)
(* GET /api/profile behind authenticateToken                               *)
(***************************************************************************)
AccessTokenRequired == Json(401, FALSE, "Access token required")

InvalidToken == Json(403, FALSE, "Invalid token")

\* res.json({success: true, user: req.user})
ProfileResponse(user) == [Json(200, TRUE, "") EXCEPT !.user = user]

\* The middleware, were a token that fails verification answered like a
\* missing one.
authenticateTokenAlways401(authHeader, now) ==
    LET token == HeaderToken(authHeader)
        verified == JwtVerify(token, JWT_SECRET, now)
    IN
    IF FalsyToken(token) \/ verified.err THEN AccessTokenRequired
    ELSE ProfileResponse(verified.user)

\* The middleware, were a token honoured only while the record of its user is
\* there with the last-login timestamp of the login that issued the token.
authenticateTokenCheckingStore(authHeader, now) ==
    LET token == HeaderToken(authHeader)
        verified == JwtVerify(token, JWT_SECRET, now)
    IN
    IF FalsyToken(token) THEN AccessTokenRequired
    ELSE IF verified.err THEN InvalidToken
    ELSE IF \A r \in users : \/ r.id # verified.user.userId
                             \/ r.last_login # <<verified.user.iat>>
    THEN InvalidToken
    ELSE ProfileResponse(verified.user)

\* The middleware: the response it sends, or next() with req.user set.
authenticateToken(authHeader, now) ==
    LET token == HeaderToken(authHeader)
        verified == JwtVerify(token, JWT_SECRET, now)
    IN
    IF FalsyToken(token) THEN AccessTokenRequired
    ELSE IF verified.err THEN InvalidToken
    ELSE ProfileResponse(verified.user)

ProfileRequest(p) ==
    /\ Free(p)
    /\ \E authHeader \in AuthHeaderInputs :
          /\ req' = [req EXCEPT ![p] =
                        [NoReq EXCEPT !.kind = "profile", !.authHeader = authHeader]]
          /\ resp' = [resp EXCEPT ![p] = authenticateToken(authHeader, clock)]
    /\ pc' = [pc EXCEPT ![p] = "done"]
    /\ local' = [local EXCEPT ![p] = NoLocal]
    /\ hist' = [hist EXCEPT ![p] = NoHist]
    /\ UNCHANGED <<users, pool, clock>>

(***************************************************************************)
(* Time passes.                                                            *)
(***************************************************************************)
Tick ==
    /\ clock < ExpiresIn
    /\ clock' = clock + TickHours
    /\ UNCHANGED <<users, pool, pc, req, local, resp, hist>>

Next ==
    \/ \E p \in Slots : GetSaltRequest(p) /\ UNCHANGED served
    \/ \E p \in Slots : GetSaltConnected(p) /\ UNCHANGED served
    \/ \E p \in Slots : GetSaltSelected(p) /\ UNCHANGED served
    \/ \E p \in Slots : RegisterRequest(p) /\ UNCHANGED served
    \/ \E p \in Slots : RegisterConnected(p) /\ UNCHANGED served
    \/ \E p \in Slots : RegisterSelected(p) /\ UNCHANGED served
    \/ \E p \in Slots : RegisterInserted(p) /\ UNCHANGED served
    \/ \E p \in Slots : LoginRequest(p) /\ UNCHANGED served
    \/ \E p \in Slots : LoginConnected(p) /\ UNCHANGED served
    \/ \E p \in Slots : LoginSelected(p) /\ UNCHANGED served
    \/ \E p \in Slots : LoginUpdated(p) /\ UNCHANGED served
    \/ \E p \in Slots : ProfileRequest(p) /\ UNCHANGED served
    \/ Tick /\ UNCHANGED served

Spec == Init /\ [][Next]_vars

(***************************************************************************)
(* One client sending register and login requests one after the other,    *)
(* with a count of those whose credentials the handler came to evaluate   *)
(* (its SELECT returned).  Requests sent between two steps of the clock    *)
(* are sent at the same time, so within any window; the count starts anew  *)
(* when the clock moves.                                                   *)
(***************************************************************************)
\* "10 req/15min"
RateLimit == 10

\* The slot of the one client.
Client == CHOOSE p \in Slots : TRUE

\* The count after a step of the client's handler that ran its SELECT.
Evaluated == IF hist'[Client].fault \/ served > RateLimit THEN served ELSE served + 1

NextRate ==
    \/ served <= RateLimit /\ RegisterRequest(Client) /\ UNCHANGED served
    \/ RegisterConnected(Client) /\ UNCHANGED served
    \/ RegisterSelected(Client) /\ served' = Evaluated
    \/ RegisterInserted(Client) /\ UNCHANGED served
    \/ served <= RateLimit /\ LoginRequest(Client) /\ UNCHANGED served
    \/ LoginConnected(Client) /\ UNCHANGED served
    \/ LoginSelected(Client) /\ served' = Evaluated
    \/ LoginUpdated(Client) /\ UNCHANGED served
    \/ Tick /\ served' = 0

SpecRate == Init /\ [][NextRate]_vars

(***************************************************************************)
(* Properties.                                                             *)
(***************************************************************************)
\* A register with a username and a clientHash whose storage steps were not
\* made to fail, answered.
RegisterAnswered(p) ==
    /\ Done(p)
    /\ req[p].kind = "register"
    /\ ~Falsy(req[p].username)
    /\ ~Falsy(req[p].clientHash)
    /\ local[p].selected
    /\ ~hist[p].fault

\* The rows of the table with this username.
RecordsOf(username) == {r \in users : r.username = username}

\* C1: two registers of the same username that were in flight together, for a
\* username that had no record, are answered one 201 and one 409, and leave
\* exactly one record of the username.
C1_ConcurrentRegister ==
    \A p \in Slots, q \in Slots :
        ( /\ p # q
          /\ RegisterAnswered(p) /\ RegisterAnswered(q)
          /\ req[p].username = req[q].username
          /\ hist[p].raced /\ hist[q].raced
          /\ local[p].rows = {} )
        => /\ {resp[p].status, resp[q].status} = {201, 409}
           /\ Cardinality(RecordsOf(req[p].username)) = 1

\* C2: registers of a username one after the other: the one that finds no
\* record is answered 201 with a userId, one that finds the record is answered
\* 409, and afterwards the table holds exactly one record of the username.
C2_RegisterTwice ==
    \A p \in Slots :
        (RegisterAnswered(p) /\ ~hist[p].raced)
        => IF local[p].rows = {}
           THEN /\ resp[p].status = 201
                /\ resp[p].userId > 0
                /\ Cardinality(RecordsOf(req[p].username)) = 1
           ELSE RecordsOf(req[p].username) # {}
                => /\ resp[p].status = 409
                   /\ Cardinality(RecordsOf(req[p].username)) = 1

\* C3: no two rows of the table have the same username.
C3_UniqueUsernames ==
    \A r1 \in users, r2 \in users : r1.username = r2.username => r1 = r2

\* Two registers of the same free username were in flight together and both
\* have been answered.
C3_Witness ==
    \E p \in Slots, q \in Slots :
        /\ p # q
        /\ RegisterAnswered(p) /\ RegisterAnswered(q)
        /\ req[p].username = req[q].username
        /\ hist[p].raced /\ hist[q].raced
        /\ local[p].rows = {} /\ local[q].rows = {}

\* A login with all three fields whose SELECT has returned the record of the
\* username.
LoginFoundUser(p) ==
    /\ req[p].kind = "login"
    /\ ~Falsy(req[p].username) /\ ~Falsy(req[p].clientHash) /\ ~Falsy(req[p].nonce)
    /\ local[p].selected
    /\ local[p].rows # {}

\* clientHash is the hash of the stored passwordHash followed by the nonce.
HashMatches(p) ==
    req[p].clientHash = Sha256Hex(FirstRow(local[p].rows).passwordHash \o req[p].nonce)

LoginUnknownUser(p) ==
    /\ Done(p)
    /\ req[p].kind = "login"
    /\ ~Falsy(req[p].username) /\ ~Falsy(req[p].clientHash) /\ ~Falsy(req[p].nonce)
    /\ local[p].selected
    /\ local[p].rows = {}

\* A login with all three fields for a registered user and a wrong clientHash.
LoginWrongHash(p) == Done(p) /\ LoginFoundUser(p) /\ ~HashMatches(p)

\* C5: the answer to a login with an unknown username and the answer to a
\* login with a known username and a wrong clientHash are the same response:
\* 401, success false, "Invalid credentials".
C5_SameFailureResponse ==
    \A p \in Slots, q \in Slots :
        (LoginUnknownUser(p) /\ LoginWrongHash(q))
        => /\ resp[p] = resp[q]
           /\ resp[p].status = 401
           /\ resp[p].success = FALSE
           /\ resp[p].message = "Invalid credentials"

\* Both failures have been answered.
C5_Witness ==
    \E p \in Slots, q \in Slots : LoginUnknownUser(p) /\ LoginWrongHash(q)

\* C6: a login with the username, clientHash and nonce of a login accepted
\* before it is not accepted.
C6_NoReplay ==
    \A p \in Slots :
        (Done(p) /\ req[p].kind = "login" /\ hist[p].replay) => resp[p].status # 200

\* A token the server has signed.
ServerToken(token) == token.kind = "jwt" /\ token.key = JWT_SECRET

\* C7: a login that succeeds at time T issues a token with iat = T, and a
\* profile request with a token of the server is answered 200 at every time
\* before iat + 24h and 403 "Invalid token" at every time from iat + 24h on.
C7_TokenLifetime ==
    [][\A p \in Slots :
         /\ (LoginUpdated(p) /\ resp'[p].status = 200)
            => resp'[p].token.claims.iat = clock
         /\ ProfileRequest(p)
            => LET token == HeaderToken(req'[p].authHeader) IN
               ServerToken(token)
               => IF clock < token.claims.iat + ExpiresIn
                  THEN resp'[p].status = 200
                  ELSE resp'[p].status = 403 /\ resp'[p].message = "Invalid token"]_vars

\* A profile request with a token of the server.
ProfileWithServerToken(p) ==
    /\ Done(p)
    /\ req[p].kind = "profile"
    /\ ServerToken(HeaderToken(req[p].authHeader))

\* The same token has been accepted by one profile request and, 24 hours
\* after it was issued, rejected by another.
C7_Witness ==
    \E p \in Slots, q \in Slots :
        /\ ProfileWithServerToken(p) /\ resp[p].status = 200
        /\ ProfileWithServerToken(q) /\ resp[q].status = 403
        /\ req[p].authHeader = req[q].authHeader
        /\ clock = HeaderToken(req[q].authHeader).claims.iat + ExpiresIn

\* C8: a profile request without an Authorization header is answered 401; with
\* a malformed, forged or expired token 403; with a valid token 200, and the
\* user of the response carries the userId and username of the login whose
\* response carried the token.
C8_ProfileGate ==
    [][\A p \in Slots :
         ProfileRequest(p)
         => LET header == req'[p].authHeader
                token == HeaderToken(header)
            IN
            /\ header = << >> => resp'[p].status = 401
            /\ ( \/ token.kind = "malformed"
                 \/ token.kind = "jwt" /\ token.key # JWT_SECRET
                 \/ ServerToken(token) /\ clock >= token.claims.exp )
               => resp'[p].status = 403
            /\ (ServerToken(token) /\ clock < token.claims.exp)
               => /\ resp'[p].status = 200
                  /\ \E q \in Slots :
                        /\ req[q].kind = "login"
                        /\ resp[q].status = 200
                        /\ resp[q].token = token
                        /\ resp'[p].user.userId = resp[q].user.id
                        /\ resp'[p].user.username = resp[q].user.username
                        /\ resp'[p].user.username = req[q].username]_vars

\* A profile request has been answered 200 with the claims of the token that
\* the login in the other slot was answered with.
C8_Witness ==
    \E p \in Slots, q \in Slots :
        /\ ProfileWithServerToken(p) /\ resp[p].status = 200
        /\ Done(q) /\ req[q].kind = "login" /\ resp[q].status = 200
        /\ resp[q].token = HeaderToken(req[p].authHeader)
        /\ resp[p].user.username = req[q].username

\* C9: a login whose clientHash matched is answered 200 with a token, whether
\* or not the update of last_login succeeds.
C9_LastLoginBestEffort ==
    \A p \in Slots :
        (Done(p) /\ LoginFoundUser(p) /\ HashMatches(p))
        => resp[p].status = 200 /\ resp[p].token.kind = "jwt"

\* A get-salt answered with a salt.
GetSaltAnswered(p) ==
    Done(p) /\ req[p].kind = "get-salt" /\ resp[p].status = 200

\* C10: every get-salt answered for a username returns the salt that register
\* derives for that username, whether or not the username has a record; the
\* salt of every record is the salt derived from its username.
C10_SaltStable ==
    /\ \A p \in Slots :
          GetSaltAnswered(p) => resp[p].salt = RegisterSalt(req[p].username)
    /\ \A p \in Slots, q \in Slots :
          (GetSaltAnswered(p) /\ GetSaltAnswered(q)
             /\ req[p].username = req[q].username)
          => resp[p].salt = resp[q].salt
    /\ \A r \in users : r.salt = RegisterSalt(r.username)

\* get-salt has been answered for a username with a record and for one
\* without.
C10_Witness ==
    \E p \in Slots, q \in Slots :
        /\ GetSaltAnswered(p) /\ ~resp[p].isNewUser
        /\ GetSaltAnswered(q) /\ resp[q].isNewUser

\* The strings a response carries: its salt, the string fields of its user and
\* the username in the claims of its token.
ResponseStrings(a) ==
    {a.salt, a.token.claims.username}
    \cup {a.user[f] : f \in DOMAIN a.user \ {"id", "userId", "iat", "exp"}}

\* C11: no response carries the passwordHash of a record, and no response of
\* register, login or profile carries the salt of a record; only get-salt
\* answers with a salt.
C11_NoSecretInResponse ==
    \A p \in Slots :
        Done(p)
        => /\ \A r \in users : r.passwordHash \notin ResponseStrings(resp[p])
           /\ req[p].kind # "get-salt"
              => /\ resp[p].salt = Undefined
                 /\ \A r \in users : r.salt \notin ResponseStrings(resp[p])

\* A login of a registered user has been answered 200, and so has a profile
\* request with its token.
C11_Witness ==
    \E p \in Slots, q \in Slots :
        /\ Done(p) /\ req[p].kind = "login" /\ resp[p].status = 200
        /\ Done(q) /\ req[q].kind = "profile" /\ resp[q].status = 200
        /\ resp[q].user.username = req[p].username

\* A body field that is missing or empty.
MissingOrEmpty(x) == x \in {Undefined, << >>}

\* The required fields of the request in slot p, by the kind of the request.
LacksRequiredField(r) ==
    \/ r.kind = "get-salt" /\ MissingOrEmpty(r.username)
    \/ r.kind = "register"
       /\ (MissingOrEmpty(r.username) \/ MissingOrEmpty(r.clientHash))
    \/ r.kind = "login"
       /\ (MissingOrEmpty(r.username) \/ MissingOrEmpty(r.clientHash)
           \/ MissingOrEmpty(r.nonce))

\* C12: a get-salt, register or login request that lacks a required field (or
\* has it empty) is answered 400 in the step it arrives in (the only step that
\* changes its slot), without taking a connection and without a change to the
\* table.
C12_MissingFieldsRejected ==
    [][\A p \in Slots :
         (LacksRequiredField(req'[p])
            /\ <<pc[p], req[p], resp[p]>> # <<pc'[p], req'[p], resp'[p]>>)
         => /\ pc'[p] = "done"
            /\ resp'[p].status = 400
            /\ resp'[p].success = FALSE
            /\ users' = users
            /\ pool' = pool]_vars

\* Requests of the three kinds that lack a field have been answered 400, with
\* no connection taken.
C12_Witness ==
    \E p \in Slots, q \in Slots :
        /\ Done(p) /\ req[p].kind = "login" /\ req[p].nonce = Undefined
        /\ resp[p].status = 400
        /\ Done(q) /\ req[q].kind = "register" /\ req[q].clientHash = << >>
        /\ resp[q].status = 400
        /\ pool = 0
        /\ users = InitialUsers

\* C13: no more than 10 register and login requests of a client have their
\* credentials evaluated within one window.
C13_RateLimited == served <= RateLimit

\* Record r with its last-login timestamp left out.
Credentials(r) ==
    [id |-> r.id, username |-> r.username, email |-> r.email,
     passwordHash |-> r.passwordHash, salt |-> r.salt, is_active |-> r.is_active]

\* The step answers slot p's request, which was still in progress, with status.
Answers(p, kind, status) ==
    /\ req[p].kind = kind
    /\ pc[p] \notin {"idle", "done"}
    /\ pc'[p] = "done"
    /\ resp'[p].status = status

\* C14: no step deletes a record or changes its id, username, email,
\* passwordHash or salt; a record appears only in a step that answers a
\* register request 201; a record's last-login timestamp changes only in a
\* step of a login request that found that record and whose clientHash
\* matched, and every other step leaves the table as it was.
C14_StoreFrame ==
    [][/\ \A r \in users :
            \E n \in users' : Credentials(n) = Credentials(r)
       /\ \A n \in users' :
            (\A r \in users : r.id # n.id)
            => \E p \in Slots : Answers(p, "register", 201)
       /\ \A r \in users :
            r \notin users'
            => \E p \in Slots :
                  /\ Answers(p, "login", 200)
                  /\ LoginFoundUser(p)
                  /\ HashMatches(p)
                  /\ FirstRow(local[p].rows).id = r.id
       /\ (\A p \in Slots : ~Answers(p, "register", 201) /\ ~Answers(p, "login", 200))
            => users' = users]_vars

\* A login whose clientHash matched was answered 200 and the last-login
\* timestamp of its record is set, while a login with a wrong clientHash was
\* answered 401.
C14_Witness ==
    \E p, q \in Slots :
        /\ Done(p) /\ LoginFoundUser(p) /\ resp[p].status = 200
        /\ Done(q) /\ LoginFoundUser(q) /\ resp[q].status = 401
        /\ \E r \in users : /\ r.id = resp[p].user.id
                            /\ r.last_login # << >>
                            /\ Credentials(r) \in {Credentials(i) : i \in InitialUsers}

\* C15: a response carries a token only if it answers 200 a login request
\* that found a record and whose clientHash is the hash of the record's
\* passwordHash followed by the nonce; the token is signed with the server's
\* secret and its userId and username are the record's.  No other response of
\* login and no response of get-salt, register or profile carries a token.
C15_TokenOnlyFromLogin ==
    \A p \in Slots :
        resp[p].token # NoToken
        => /\ Done(p)
           /\ resp[p].status = 200
           /\ LoginFoundUser(p)
           /\ HashMatches(p)
           /\ ServerToken(resp[p].token)
           /\ resp[p].token.claims.userId = FirstRow(local[p].rows).id
           /\ resp[p].token.claims.username = FirstRow(local[p].rows).username
           /\ FirstRow(local[p].rows).username = req[p].username

\* A login was answered 200 with a token, a login with a wrong clientHash was
\* answered 401, and both responses are there to compare.
C15_Witness ==
    \E p, q \in Slots :
        /\ Done(p) /\ LoginFoundUser(p) /\ HashMatches(p)
        /\ resp[p].token.kind = "jwt"
        /\ resp[p].token.claims.userId > 0
        /\ Done(q) /\ LoginFoundUser(q) /\ ~HashMatches(q)
        /\ resp[q].status = 401
        /\ resp[q].token = NoToken

\* The step handles a profile request in slot p.
HandlesProfile(p) ==
    /\ req'[p].kind = "profile"
    /\ <<pc[p], req[p], resp[p]>> # <<pc'[p], req'[p], resp'[p]>>

\* C16: a step that handles a profile request leaves the table, the pool, the
\* clock and every other request as they were, and answers 200 with the
\* token's claims exactly when the token is signed with the server's secret
\* and the time is before its iat + 24h, whatever the table holds.
C16_GateIgnoresStore ==
    [][\A p \in Slots :
         HandlesProfile(p)
         => LET token == HeaderToken(req'[p].authHeader) IN
            /\ users' = users
            /\ pool' = pool
            /\ clock' = clock
            /\ \A q \in Slots \ {p} :
                  <<pc'[q], req'[q], resp'[q], local'[q]>>
                     = <<pc[q], req[q], resp[q], local[q]>>
            /\ resp'[p].status = 200
               <=> (ServerToken(token) /\ clock < token.claims.iat + ExpiresIn)
            /\ resp'[p].status = 200 => resp'[p].user = token.claims]_vars

\* A profile request was answered 200 with a token whose user has logged in
\* again since it was issued, so that the record is no longer as it was left
\* by the login that issued the token.
C16_Witness ==
    \E p, q \in Slots :
        /\ ProfileWithServerToken(p) /\ resp[p].status = 200
        /\ Done(q) /\ req[q].kind = "login"
        /\ resp[q].token = HeaderToken(req[p].authHeader)
        /\ \E r \in users :
              /\ r.id = resp[q].token.claims.userId
              /\ r.last_login # <<resp[q].token.claims.iat>>

\* The one body of a 500 response.
GenericServerError == Json(500, FALSE, "Server error")

\* The step is the INSERT of slot p's register request, and the statement
\* is refused.
InsertRefused(p) ==
    /\ pc[p] = "insert"
    /\ pc'[p] # "insert"
    /\ ~InsertUser(users, req[p].username, OrNull(req[p].email),
                   req[p].clientHash, RegisterSalt(req[p].username)).ok

\* C17: a request of get-salt, register or login during which obtaining the
\* connection or a query failed is answered in that very step, 500 with
\* success false and message "Server error" and without a token; the step
\* changes no record, the handler takes no further step for the request, and
\* the answer stays as it is.
C17_StorageFailure ==
    [][\A p \in Slots :
         /\ hist'[p].fault
            => /\ pc'[p] = "done"
               /\ resp'[p] = GenericServerError
               /\ req'[p].kind \in {"get-salt", "register", "login"}
         /\ ((InFlight(p) /\ hist'[p].fault) \/ InsertRefused(p))
            => /\ pc'[p] = "done"
               /\ resp'[p] = GenericServerError
               /\ resp'[p].token = NoToken
               /\ users' = users]_vars

\* A login whose clientHash matched was answered 500 because the UPDATE
\* failed, and a get-salt request was answered 500 because no connection
\* could be obtained.
C17_Witness ==
    \E p, q \in Slots :
        /\ Done(p) /\ hist[p].fault
        /\ LoginFoundUser(p) /\ HashMatches(p)
        /\ resp[p].status = 500
        /\ Done(q) /\ hist[q].fault
        /\ req[q].kind = "get-salt" /\ ~local[q].selected
        /\ resp[q].status = 500

\* A record has the username of slot p's register request, or the email the
\* request gives.
Clashes(p) ==
    \E r \in users :
        \/ r.username = req[p].username
        \/ req[p].email # Undefined /\ r.email = req[p].email

\* The step is the SELECT of slot p's register request, and it returns.
RegisterLooksUp(p) ==
    /\ req[p].kind = "register"
    /\ pc[p] = "select"
    /\ pc'[p] # "select"
    /\ ~hist'[p].fault

\* C18: a register request whose SELECT returns is answered 409 there and
\* then, with no record created, if a record has its username or the email it
\* gives, and is not answered 409 at all otherwise: a request without email is
\* compared by username only, so a record without email does not stand in the
\* way of a different username registering without email.
C18_RegisterConflict ==
    [][\A p \in Slots :
         /\ RegisterLooksUp(p)
            => IF Clashes(p)
               THEN /\ pc'[p] = "done"
                    /\ resp'[p] = RegisterConflict
                    /\ users' = users
               ELSE pc'[p] = "insert"
         /\ (req'[p].kind = "register" /\ resp'[p].status = 409)
            => \/ req[p].kind = "register" /\ resp[p].status = 409
               \/ RegisterLooksUp(p) /\ Clashes(p)]_vars

\* Bob's registration without email found no record in its way, though
\* Carol's record has no email either, while Bob's registration with Alice's
\* email was answered 409.
C18_Witness ==
    \E p, q \in Slots :
        /\ Done(p) /\ req[p].kind = "register"
        /\ req[p].username = Bob /\ req[p].email = Undefined
        /\ local[p].selected /\ local[p].rows = {}
        /\ resp[p].status # 409
        /\ \E r \in users : r.email = SqlNull /\ r.username # Bob
        /\ Done(q) /\ req[q].kind = "register"
        /\ req[q].username = Bob /\ req[q].email = AliceMail
        /\ resp[q].status = 409

\* The slots whose handler holds a connection: those past getConnection() and
\* not yet answered.
Holders == {p \in Slots : pc[p] \in {"select", "insert", "update"}}

====
